---- MODULE Spec2Model ----
(***************************************************************************)
(* Model of simple-file-client (src/main.rs): the test-file generator      *)
(* generate_random_text_file, the three HTTP exchanges upload_file,        *)
(* download_file and delete_file, and the iteration loop and averaging of  *)
(* main.                                                                   *)
(*                                                                         *)
(* Two specifications:                                                     *)
(*   Spec     one run of the process main, from parsed arguments to exit;  *)
(*   GenSpec  repeated calls of generate_random_text_file on a filesystem  *)
(*            that persists between the calls.                             *)
(***************************************************************************)
EXTENDS Integers, Sequences, FiniteSets, Bags, TLC

VARIABLES
    \* ---- the filesystem (shared by both specifications)
    fs,                 \* path -> NoFile or the file's bytes
    \* ---- GenSpec: the calls of generate_random_text_file
    last,               \* the last call: path, size, result, write operations
    repeated,           \* the last call repeated the call before it, which returned Ok
    \* ---- Spec: one run of main
    args,               \* the parsed command line (matches)
    pc,                 \* position of main
    iter,               \* loop counter of `for _ in 0..iterations`
    upload_durations,   \* Vec<Duration>, in time units
    download_durations, \* Vec<Duration>
    inflight,           \* HTTP exchanges issued and not yet returned
    done_call,          \* the last HTTP exchange that returned, with its outcome
    issued,             \* kind -> number of exchanges issued
    succeeded,          \* kind -> number of calls whose function returned Ok
    stdout,             \* bag of message kinds printed with println!
    stderr,             \* bag of message kinds printed with eprintln!
    average_upload,     \* the reported average, or None
    average_download,
    exit_code           \* None while running, else the process exit status

gvars == <<fs, last, repeated>>
mvars == <<args, pc, iter, upload_durations, download_durations, inflight,
           done_call, issued, succeeded, stdout, stderr, average_upload,
           average_download, exit_code>>
vars == <<gvars, mvars>>

\* ------------------------------------------------------------------ bounds
\* Largest requested file size; with block_size = 2 it covers the empty file,
\* a partial block, full blocks, and full blocks followed by a partial one.
MaxSize == 4
\* main.rs:33 `let block_size = 1024;`, scaled down so that files of several
\* blocks stay small.
block_size == 2
\* main.rs:194 `.unwrap_or(1024)`, the default of --size, scaled like block_size.
default_size == 2
\* Largest --iterations value.
MaxIter == 3
\* Durations are drawn from 1..MaxDur time units.
MaxDur == 2
\* main.rs:283,293 `len() as u32`: the number of values of the u32 the length
\* is cast to, 2^32 in the program, scaled down so that a run can reach it.
U32_RANGE == 2

None == "None"
\* A filesystem entry: no file at the path, or a file holding `bytes`.
NoFile == [exists |-> FALSE, bytes |-> <<>>]
File(bytes) == [exists |-> TRUE, bytes |-> bytes]
Paths == {"t.bin"}
\* A few of the 62 bytes of rand::distributions::Alphanumeric: '0', 'a'.
Alphanumeric == {48, 97}

Min(a, b) == IF a < b THEN a ELSE b

\* ------------------------------------------------------- Sha256 and hex
\* The hasher is a 16-bit running fold over the bytes it was fed; the digest is
\* its two bytes. It keeps what the claims need of SHA-256: the digest is a
\* function of the byte sequence alone, streaming in blocks gives the digest
\* of the concatenation, and different contents give different digests except
\* for collisions.
Sha256_new == 1

RECURSIVE Sha256_update(_, _)
Sha256_update(hasher, data) ==
    IF data = <<>> THEN hasher
    ELSE Sha256_update((hasher * 31 + Head(data)) % 65536, Tail(data))

Sha256_finalize(hasher) == <<hasher \div 256, hasher % 256>>

Sha256_digest(data) == Sha256_finalize(Sha256_update(Sha256_new, data))

HexDigits == <<"0", "1", "2", "3", "4", "5", "6", "7",
               "8", "9", "a", "b", "c", "d", "e", "f">>

\* hex::encode: two lowercase hexadecimal digits per byte, high nibble first.
hex_encode(bytes) ==
    [k \in 1..(2 * Len(bytes)) |->
        IF k % 2 = 1 THEN HexDigits[(bytes[(k + 1) \div 2] \div 16) + 1]
        ELSE HexDigits[(bytes[k \div 2] % 16) + 1]]

\* ------------------------------------------------- generate_random_text_file
Ok(v) == [ok |-> TRUE, value |-> v, error |-> None]
Err(e) == [ok |-> FALSE, value |-> <<>>, error |-> e]

\* The storage operations that can fail; `fail` names the one that does:
\* [op |-> "write", n |-> k] is the k-th write_all of the call.
IoOp(op) == [op |-> op, n |-> 0]
MaxWrites == (MaxSize + block_size - 1) \div block_size
IoFailures == {IoOp(op) : op \in {"none", "metadata", "read", "create"}}
                  \cup {[op |-> "write", n |-> k] : k \in 1..MaxWrites}

\* write_blocks with the loop left as soon as less than a full block remains.
RECURSIVE write_blocks_full_only(_, _, _, _, _, _, _)
write_blocks_full_only(size, generated_size, file, hasher, rnd, fail, nwrites) ==
    IF generated_size + block_size <= size
    THEN LET block == SubSeq(rnd, generated_size + 1, generated_size + block_size)
         IN IF fail = [op |-> "write", n |-> nwrites + 1]
            THEN [ok |-> FALSE, file |-> file, hasher |-> hasher,
                  nwrites |-> nwrites]
            ELSE write_blocks_full_only(size, generated_size + block_size,
                                        file \o block,
                                        Sha256_update(hasher, block), rnd, fail,
                                        nwrites + 1)
    ELSE [ok |-> TRUE, file |-> file, hasher |-> hasher, nwrites |-> nwrites]

\* main.rs:36-49, the while loop. `rnd` is the stream of bytes thread_rng()
\* yields; each block takes the next chunk_size of them.
RECURSIVE write_blocks(_, _, _, _, _, _, _)
write_blocks(size, generated_size, file, hasher, rnd, fail, nwrites) ==
    IF generated_size < size
    THEN LET remaining == size - generated_size
             chunk_size == Min(block_size, remaining)
             block == SubSeq(rnd, generated_size + 1, generated_size + chunk_size)
         IN IF fail = [op |-> "write", n |-> nwrites + 1]
            THEN [ok |-> FALSE, file |-> file, hasher |-> hasher,
                  nwrites |-> nwrites]
            ELSE write_blocks(size, generated_size + chunk_size, file \o block,
                              Sha256_update(hasher, block), rnd, fail,
                              nwrites + 1)
    ELSE [ok |-> TRUE, file |-> file, hasher |-> hasher, nwrites |-> nwrites]

\* generate_random_text_file without the reuse of a file of the right size.
generate_random_text_file_always(old, size, rnd, fail) ==
    IF fail.op = "create"
    THEN [file |-> old, ret |-> Err("io"), out |-> <<>>, writes |-> 0]
    ELSE LET w == write_blocks(size, 0, <<>>, Sha256_new, rnd, fail, 0)
         IN IF w.ok
            THEN [file |-> File(w.file),
                  ret |-> Ok(hex_encode(Sha256_finalize(w.hasher))),
                  out |-> <<"generated">>, writes |-> 1 + w.nwrites]
            ELSE [file |-> File(w.file), ret |-> Err("io"), out |-> <<>>,
                  writes |-> 1 + w.nwrites]

\* main.rs:22-53. Returns the new content of `filename` (NoFile if there is
\* none), the io::Result, the messages printed and the number of operations
\* that wrote to the file (File::create truncates, so it counts as one).
generate_random_text_file(old, size, rnd, fail) ==
    IF old.exists /\ fail.op = "metadata"
    THEN [file |-> old, ret |-> Err("io"), out |-> <<>>, writes |-> 0]
    ELSE IF old.exists /\ Len(old.bytes) = size
    THEN IF fail.op = "read"
         THEN [file |-> old, ret |-> Err("io"), out |-> <<"exists">>,
               writes |-> 0]
         ELSE [file |-> old,
               ret |-> Ok(hex_encode(Sha256_digest(old.bytes))),
               out |-> <<"exists">>, writes |-> 0]
    ELSE IF fail.op = "create"
    THEN [file |-> old, ret |-> Err("io"), out |-> <<>>, writes |-> 0]
    ELSE LET w == write_blocks(size, 0, <<>>, Sha256_new, rnd, fail, 0)
         IN IF w.ok
            THEN [file |-> File(w.file),
                  ret |-> Ok(hex_encode(Sha256_finalize(w.hasher))),
                  out |-> <<"generated">>, writes |-> 1 + w.nwrites]
            ELSE [file |-> File(w.file), ret |-> Err("io"), out |-> <<>>,
                  writes |-> 1 + w.nwrites]

\* ------------------------------------------------------------------ GenSpec
\* Files found at a path before the first call: none, or a file left by
\* something else (bytes 'x'), of any length up to MaxSize.
StaleFiles == {File([k \in 1..n |-> 120]) : n \in 0..MaxSize}
InitialFiles == {NoFile} \cup StaleFiles

NoCall == [path |-> None, size |-> 0, ret |-> Err("none"), writes |-> 0]

\* main is not running in GenSpec.
MainIdle ==
    /\ args = None /\ pc = "idle" /\ iter = 0
    /\ upload_durations = <<>> /\ download_durations = <<>>
    /\ inflight = {} /\ done_call = None
    /\ issued = None /\ succeeded = None
    /\ stdout = EmptyBag /\ stderr = EmptyBag
    /\ average_upload = None /\ average_download = None
    /\ exit_code = "running"

GenInit ==
    /\ fs \in [Paths -> InitialFiles]
    /\ last = NoCall
    /\ repeated = FALSE
    /\ MainIdle

\* One call generate_random_text_file(path, size) that runs to its return.
GenerateCall ==
    \E path \in Paths, size \in 0..MaxSize, fail \in IoFailures :
      \E rnd \in [1..size -> Alphanumeric] :
        LET r == generate_random_text_file(fs[path], size, rnd, fail)
        IN /\ fs' = [fs EXCEPT ![path] = r.file]
           /\ last' = [path |-> path, size |-> size, ret |-> r.ret,
                       writes |-> r.writes]
           /\ repeated' = (last.ret.ok /\ last.path = path /\ last.size = size)
           /\ UNCHANGED mvars

GenNext == GenerateCall

GenSpec == GenInit /\ [][GenNext]_vars

\* --------------------------------------------------- the HTTP exchanges
\* What the transport does with one request: the client cannot be built, the
\* multipart form cannot be built because the local file is unreadable
\* (upload only), send() fails (no connection, timeout, TLS), or the server
\* answers with a status; the body of the answer can then be read or not.
Statuses == {200, 404, 500}
Response(status, body_ok) ==
    [t |-> "response", status |-> status, body_ok |-> body_ok]
NoResponse(t) == [t |-> t, status |-> 0, body_ok |-> FALSE]
SendOutcomes ==
    {NoResponse("build_err"), NoResponse("send_err")}
        \cup {Response(st, TRUE) : st \in Statuses}
UploadOutcomes == SendOutcomes \cup {NoResponse("file_err")}
DownloadOutcomes == SendOutcomes \cup {Response(st, FALSE) : st \in Statuses}
DeleteOutcomes == SendOutcomes

\* The body the server sends with a status: the stored file, or an error page.
Body(status) == IF status = 200 THEN <<97, 48, 97>> ELSE <<48>>

\* upload_file with the status checked (error_for_status).
upload_file_checked(outcome) ==
    IF outcome.t = "response" /\ outcome.status < 400
    THEN Ok(<<outcome.status>>) ELSE Err(outcome.t)

\* main.rs:55-69: Ok(response) whenever send() returned a response; the status
\* of the response is not looked at.
upload_file(outcome) ==
    IF outcome.t = "response" THEN Ok(<<outcome.status>>) ELSE Err(outcome.t)

\* main.rs:71-96: Ok((buffer.len(), hex digest)) whenever send() returned a
\* response and its body was read; the status is not looked at.
download_file(outcome) ==
    IF outcome.t # "response" THEN Err("Network")
    ELSE IF ~outcome.body_ok THEN Err("Io")
    ELSE LET buffer == Body(outcome.status)
         IN Ok(<<Len(buffer), hex_encode(Sha256_digest(buffer))>>)

\* main.rs:98-105
delete_file(outcome) ==
    IF outcome.t = "response" THEN Ok(<<outcome.status>>) ELSE Err(outcome.t)

\* The URL each exchange is sent to (main.rs:65, 80-85, 103).
upload_url == <<"POST", "/upload">>
download_url(chunked) ==
    <<"GET", IF chunked THEN "/download-chunked/" ELSE "/download/">>
delete_url == <<"DELETE", "/">>

\* --------------------------------------------------------------- main
Kinds == {"delete", "upload", "download"}
Durations == 1..MaxDur

SizeArgs == {[kind |-> "absent", n |-> 0], [kind |-> "bad", n |-> 0]}
                \cup {[kind |-> "num", n |-> k] : k \in 0..MaxSize}

\* The command lines: `present` is matches.args_present(); a flag that is given
\* makes it true. --chunked matters to a download only, --size to --generate
\* only, --iterations to a transfer only.
ArgSets ==
    {a \in [present : BOOLEAN, generate : BOOLEAN, size : SizeArgs,
            upload : BOOLEAN, download : BOOLEAN, server : BOOLEAN,
            chunked : BOOLEAN, iterations : 0..MaxIter] :
        /\ (a.generate \/ a.upload \/ a.download \/ a.server) => a.present
        /\ ~a.present => (~a.chunked /\ a.iterations = 1 /\ a.size.kind = "absent")
        /\ ~a.generate => a.size.kind = "absent"
        /\ a.generate => (a.iterations = 1 /\ ~a.chunked)
        /\ a.chunked => a.download}

NoExchange ==
    [kind |-> None, url |-> <<>>, iter |-> 0, ulen |-> 0, dlen |-> 0,
     outcome |-> NoResponse(None), ret |-> Err(None)]

\* A request as it is issued; ulen and dlen are the lengths of the two
\* duration lists at that moment.
Request(kind, url) ==
    [kind |-> kind, url |-> url, iter |-> iter,
     ulen |-> Len(upload_durations), dlen |-> Len(download_durations)]

Returned(req, outcome, ret) ==
    [kind |-> req.kind, url |-> req.url, iter |-> req.iter, ulen |-> req.ulen,
     dlen |-> req.dlen, outcome |-> outcome, ret |-> ret]

NoAverage == [reported |-> FALSE, value |-> 0]
Reported(v) == [reported |-> TRUE, value |-> v]

println(bag, msg) == bag (+) SetToBag({msg})

Init ==
    /\ args \in ArgSets
    /\ fs \in [Paths -> IF args.generate THEN InitialFiles ELSE {NoFile}]
    /\ last = NoCall /\ repeated = FALSE
    /\ pc = "start" /\ iter = 0
    /\ upload_durations = <<>> /\ download_durations = <<>>
    /\ inflight = {} /\ done_call = NoExchange
    /\ issued = [k \in Kinds |-> 0]
    /\ succeeded = [k \in {"upload", "download"} |-> 0]
    /\ stdout = EmptyBag /\ stderr = EmptyBag
    /\ average_upload = NoAverage /\ average_download = NoAverage
    /\ exit_code = "running"

\* std::process::exit(code), a return from main (code 0) or a panic (101).
Exit(code) == pc' = "exited" /\ exit_code' = code

\* main.rs:173-176
NoArguments ==
    /\ pc = "start" /\ ~args.present
    /\ stdout' = println(stdout, "no_arguments")
    /\ Exit("0")
    /\ UNCHANGED <<gvars, args, iter, upload_durations, download_durations,
                   inflight, done_call, issued, succeeded, stderr,
                   average_upload, average_download>>

\* main.rs:190-199: --generate takes the run; --upload and --download are not
\* looked at. An unparsable --size panics in unwrap().
GenerateMode ==
    /\ pc = "start" /\ args.present /\ args.generate
    /\ \/ /\ args.size.kind = "bad"
          /\ Exit("101")
          /\ UNCHANGED <<fs, stdout, stderr>>
       \/ /\ args.size.kind # "bad"
          /\ LET size == IF args.size.kind = "num" THEN args.size.n
                         ELSE default_size
             IN \E path \in Paths, fail \in IoFailures :
                  \E rnd \in [1..size -> Alphanumeric] :
                    LET r == generate_random_text_file(fs[path], size, rnd, fail)
                        out == IF r.out = <<>> THEN stdout
                               ELSE println(stdout, r.out[1])
                    IN /\ fs' = [fs EXCEPT ![path] = r.file]
                       /\ stdout' = IF r.ret.ok THEN println(out, "sha256")
                                    ELSE out
                       /\ stderr' = IF r.ret.ok THEN stderr
                                    ELSE println(stderr, "error")
          /\ Exit("0")
    /\ UNCHANGED <<last, repeated, args, iter, upload_durations,
                   download_durations, inflight, done_call, issued, succeeded,
                   average_upload, average_download>>

\* main.rs:200-204: the else branch, up to the head of the for loop.
TransferMode ==
    /\ pc = "start" /\ args.present /\ ~args.generate
    /\ upload_durations' = <<>> /\ download_durations' = <<>>
    /\ pc' = "for"
    /\ UNCHANGED <<gvars, args, iter, inflight, done_call, issued, succeeded,
                   stdout, stderr, average_upload, average_download, exit_code>>

\* main.rs:204 `for _ in 0..iterations`: the next iteration, or past the loop.
ForLoop ==
    /\ pc = "for"
    /\ pc' = IF iter < args.iterations THEN "upload?" ELSE "averages"
    /\ UNCHANGED <<gvars, args, iter, upload_durations, download_durations,
                   inflight, done_call, issued, succeeded, stdout, stderr,
                   average_upload, average_download, exit_code>>

\* The check of the server URL left out.
server_url_never_none == FALSE

\* main.rs:207, 244 `server_url.is_none()`
server_url_is_none == ~args.server

Issue(req) ==
    /\ inflight' = inflight \cup {req}
    /\ issued' = [issued EXCEPT ![req.kind] = @ + 1]

\* main.rs:206-217: the upload branch up to the call of delete_file.
UploadRequested ==
    /\ pc = "upload?"
    /\ IF ~args.upload
       THEN /\ pc' = "download?"
            /\ UNCHANGED <<inflight, issued, stderr, exit_code>>
       ELSE IF server_url_is_none
       THEN /\ stderr' = println(stderr, "server_required_upload")
            /\ Exit("1")
            /\ UNCHANGED <<inflight, issued>>
       ELSE /\ Issue(Request("delete", delete_url))
            /\ pc' = "delete"
            /\ UNCHANGED <<stderr, exit_code>>
    /\ UNCHANGED <<gvars, args, iter, upload_durations, download_durations,
                   done_call, succeeded, stdout, average_upload,
                   average_download>>

\* A request that is not waited for.
exchange_left(calls, req) == calls

\* An exchange is over when its function returns: send() and read_to_end()
\* block (main.rs:67, 86, 91, 104).
exchange_done(calls, req) == calls \ {req}

\* The result of delete_file looked at: no upload after a failed delete.
after_delete_checked(ret) == IF ret.ok THEN "upload!" ELSE "download?"

\* main.rs:217 `let _ = delete_file(server, file);`: whatever delete_file
\* returns is dropped and main goes on to the upload.
after_delete(ret) == "upload!"

\* main.rs:217: delete_file returns.
DeleteReturns ==
    /\ pc = "delete"
    /\ \E req \in inflight, outcome \in DeleteOutcomes :
         LET ret == delete_file(outcome)
         IN /\ req.kind = "delete"
            /\ done_call' = Returned(req, outcome, ret)
            /\ inflight' = exchange_done(inflight, req)
            /\ pc' = after_delete(ret)
    /\ UNCHANGED <<gvars, args, iter, upload_durations, download_durations,
                   issued, succeeded, stdout, stderr, average_upload,
                   average_download, exit_code>>

\* main.rs:219-225: the start of the upload is printed, the start time is
\* taken and upload_file is called.
StartUpload ==
    /\ pc = "upload!"
    /\ stdout' = println(stdout, "start_uploading")
    /\ Issue(Request("upload", upload_url))
    /\ pc' = "upload"
    /\ UNCHANGED <<gvars, args, iter, upload_durations, download_durations,
                   done_call, succeeded, stderr, average_upload,
                   average_download, exit_code>>

\* A failed upload recorded as a duration of zero.
upload_match_zero(ret, duration, durations) ==
    Append(durations, IF ret.ok THEN duration ELSE 0)

\* main.rs:225-239, the match on the result of upload_file: the duration is
\* pushed in the Ok arm only.
upload_match(ret, duration, durations) ==
    IF ret.ok THEN Append(durations, duration) ELSE durations

\* main.rs:226-240: neither arm returns, breaks or exits; main goes on to the
\* download branch.
after_upload(ret) == "download?"

\* main.rs:225-240: upload_file returns.
UploadReturns ==
    /\ pc = "upload"
    /\ \E req \in inflight, outcome \in UploadOutcomes, duration \in Durations :
         LET ret == upload_file(outcome)
         IN /\ req.kind = "upload"
            /\ done_call' = Returned(req, outcome, ret)
            /\ inflight' = exchange_done(inflight, req)
            /\ upload_durations' = upload_match(ret, duration, upload_durations)
            /\ succeeded' = [succeeded EXCEPT
                                !["upload"] = IF ret.ok THEN @ + 1 ELSE @]
            /\ stdout' = IF ret.ok THEN println(stdout, "uploaded") ELSE stdout
            /\ stderr' = IF ret.ok THEN stderr
                         ELSE println(stderr, "error_uploading")
            /\ pc' = after_upload(ret)
    /\ UNCHANGED <<gvars, args, iter, download_durations, issued,
                   average_upload, average_download, exit_code>>

\* main.rs:243-258: the download branch up to the call of download_file; with
\* no download requested the iteration ends.
DownloadRequested ==
    /\ pc = "download?"
    /\ IF ~args.download
       THEN /\ iter' = iter + 1 /\ pc' = "for"
            /\ UNCHANGED <<inflight, issued, stdout, stderr, exit_code>>
       ELSE IF server_url_is_none
       THEN /\ stderr' = println(stderr, "server_required_download")
            /\ Exit("1")
            /\ UNCHANGED <<iter, inflight, issued, stdout>>
       ELSE /\ stdout' = println(stdout, "start_downloading")
            /\ Issue(Request("download", download_url(args.chunked)))
            /\ pc' = "download"
            /\ UNCHANGED <<iter, stderr, exit_code>>
    /\ UNCHANGED <<gvars, args, upload_durations, download_durations,
                   done_call, succeeded, average_upload, average_download>>

\* main.rs:258-276, the match on the result of download_file.
download_match(ret, duration, durations) ==
    IF ret.ok THEN Append(durations, duration) ELSE durations

\* A failed download that leaves the loop.
after_download_break(ret) == IF ret.ok THEN "for" ELSE "averages"

\* main.rs:259-277: neither arm returns, breaks or exits; the iteration ends
\* and the loop goes on.
after_download(ret) == "for"

\* main.rs:258-278: download_file returns and the iteration ends.
DownloadReturns ==
    /\ pc = "download"
    /\ \E req \in inflight, outcome \in DownloadOutcomes, duration \in Durations :
         LET ret == download_file(outcome)
         IN /\ req.kind = "download"
            /\ done_call' = Returned(req, outcome, ret)
            /\ inflight' = exchange_done(inflight, req)
            /\ download_durations' =
                   download_match(ret, duration, download_durations)
            /\ succeeded' = [succeeded EXCEPT
                                !["download"] = IF ret.ok THEN @ + 1 ELSE @]
            /\ stdout' = IF ret.ok THEN println(stdout, "downloaded") ELSE stdout
            /\ stderr' = IF ret.ok THEN stderr
                         ELSE println(stderr, "error_downloading")
            /\ pc' = after_download(ret)
    /\ iter' = iter + 1
    /\ UNCHANGED <<gvars, args, upload_durations, issued, average_upload,
                   average_download, exit_code>>

RECURSIVE Sum(_)
Sum(durations) ==
    IF durations = <<>> THEN 0 ELSE Head(durations) + Sum(Tail(durations))

\* `len() as u32` (main.rs:283, 293): the length modulo the range of u32.
as_u32(n) == n % U32_RANGE

\* main.rs:282-283, 292-293: sum::<Duration>() / len as u32. Dividing a
\* Duration by zero panics.
average(durations) ==
    LET n == as_u32(Len(durations))
    IN IF n = 0 THEN [panic |-> TRUE, value |-> 0]
       ELSE [panic |-> FALSE, value |-> Sum(durations) \div n]

\* main.rs:280-303: the averages, and the return from main.
Averages ==
    /\ pc = "averages"
    /\ LET up == average(upload_durations)
           down == average(download_durations)
           want_up == Len(upload_durations) > 0
           want_down == Len(download_durations) > 0
       IN IF want_up /\ up.panic
          THEN /\ Exit("101")
               /\ UNCHANGED <<stdout, average_upload, average_download>>
          ELSE IF want_down /\ down.panic
          THEN /\ average_upload' =
                      IF want_up THEN Reported(up.value) ELSE NoAverage
               /\ stdout' = IF want_up THEN println(stdout, "average_upload")
                            ELSE stdout
               /\ Exit("101")
               /\ UNCHANGED average_download
          ELSE /\ average_upload' =
                      IF want_up THEN Reported(up.value) ELSE NoAverage
               /\ average_download' =
                      IF want_down THEN Reported(down.value) ELSE NoAverage
               /\ stdout' =
                      LET o == IF want_up THEN println(stdout, "average_upload")
                               ELSE stdout
                      IN IF want_down THEN println(o, "average_download") ELSE o
               /\ Exit("0")
    /\ UNCHANGED <<gvars, args, iter, upload_durations, download_durations,
                   inflight, done_call, issued, succeeded, stderr>>

Next ==
    \/ NoArguments
    \/ GenerateMode
    \/ TransferMode
    \/ ForLoop
    \/ UploadRequested
    \/ DeleteReturns
    \/ StartUpload
    \/ UploadReturns
    \/ DownloadRequested
    \/ DownloadReturns
    \/ Averages

Spec == Init /\ [][Next]_vars

\* ------------------------------------------------------------------ claims
Transfer == args.present /\ ~args.generate
\* The for loop is over: main is at the averages, or went through them.
PastLoop ==
    Transfer /\ (pc = "averages" \/ (pc = "exited" /\ exit_code \in {"0", "101"}))
Requested(kind) == IF kind = "upload" THEN args.upload ELSE args.download
DurationsOf(kind) ==
    IF kind = "upload" THEN upload_durations ELSE download_durations

\* C1 (GenSpec): a call generate_random_text_file(path, S) that returns Ok
\* leaves a file of exactly S bytes at the path, and the digest it returns is
\* the hex SHA-256 digest of the bytes the file then holds, whatever was at
\* the path before.
C1_GeneratedSizeAndDigest ==
    (last.path # None /\ last.ret.ok) =>
        /\ fs[last.path].exists
        /\ Len(fs[last.path].bytes) = last.size
        /\ last.ret.value = hex_encode(Sha256_digest(fs[last.path].bytes))

\* A file of a full block and a partial one was written and hashed.
C1_Witness ==
    /\ last.path # None /\ last.ret.ok
    /\ last.size > block_size /\ last.size % block_size # 0
    /\ last.writes > 2

\* C2 (GenSpec): a call that repeats the path and size of the call before it,
\* which returned Ok, writes nothing (no create, no write_all: the file is as
\* it was), and the digest it returns is the digest the first call returned.
C2_SecondCallWritesNothing ==
    [][(last.ret.ok /\ last'.path = last.path /\ last'.size = last.size) =>
          /\ fs' = fs
          /\ last'.writes = 0
          /\ last'.ret.ok => last'.ret.value = last.ret.value]_vars

\* A second call with the same path and size has returned Ok, for a file of
\* more than one block.
C2_Witness ==
    repeated /\ last.ret.ok /\ last.size > block_size

\* C3 (Spec): in transfer mode with a server URL and N >= 1 iterations, once
\* the loop is over each duration list holds one duration (never zero) per call
\* of its kind that returned Ok and none for a call that returned Err: at most
\* N, and N exactly when all N calls of a requested kind returned Ok.
C3_DurationCounts ==
    (Transfer /\ args.server /\ args.iterations >= 1) =>
        \A kind \in {"upload", "download"} :
            /\ Len(DurationsOf(kind)) = succeeded[kind]
            /\ succeeded[kind] <= issued[kind]
            /\ issued[kind] <= args.iterations
            /\ \A k \in 1..Len(DurationsOf(kind)) : DurationsOf(kind)[k] >= 1
            /\ PastLoop =>
                 /\ Len(DurationsOf(kind)) <= args.iterations
                 /\ issued[kind] = IF Requested(kind) THEN args.iterations ELSE 0
                 /\ Requested(kind) =>
                      (Len(DurationsOf(kind)) = args.iterations
                          <=> succeeded[kind] = issued[kind])

\* The loop is over, some uploads failed and every download succeeded.
C3_Witness ==
    /\ PastLoop /\ args.server /\ args.iterations = MaxIter
    /\ Len(upload_durations) > 0 /\ Len(upload_durations) < args.iterations
    /\ issued["upload"] = args.iterations
    /\ Len(download_durations) = args.iterations

\* C4 (Spec): a download answered with status 404 is a failure of its
\* iteration: no duration is appended to download_durations for it.
C4_NotFoundIsFailure ==
    (done_call.kind = "download" /\ done_call.outcome.t = "response"
        /\ done_call.outcome.status = 404) =>
        /\ ~done_call.ret.ok
        /\ Len(download_durations) = done_call.dlen

C6_LoopRunsAllIterations ==
    (Transfer /\ args.server) =>
        /\ iter <= args.iterations
        /\ pc # "exited" => ENABLED Next
        /\ pc = "exited" => PastLoop
        /\ PastLoop =>
             /\ iter = args.iterations
             /\ issued["upload"] = IF args.upload THEN args.iterations ELSE 0
             /\ issued["delete"] = issued["upload"]
             /\ issued["download"] = IF args.download THEN args.iterations ELSE 0
             /\ CopiesIn("error_uploading", stderr)
                    = issued["upload"] - succeeded["upload"]
             /\ CopiesIn("error_downloading", stderr)
                    = issued["download"] - succeeded["download"]

\* The loop is over after MaxIter iterations in which every upload and every
\* download failed.
C6_Witness ==
    /\ PastLoop /\ args.server /\ args.upload /\ args.download
    /\ args.iterations = MaxIter /\ iter = MaxIter
    /\ succeeded["upload"] = 0 /\ succeeded["download"] = 0
    /\ issued["upload"] = MaxIter /\ issued["download"] = MaxIter

\* C7 (Spec): after the loop an average is reported for a kind exactly when
\* its list is non-empty, it is the sum of the recorded durations divided by
\* their number, and computing it never fails (main returns with status 0).
C7_AverageIsMean ==
    (PastLoop /\ pc = "exited") =>
        /\ exit_code = "0"
        /\ average_upload.reported <=> Len(upload_durations) > 0
        /\ average_upload.reported =>
             average_upload.value
                 = Sum(upload_durations) \div Len(upload_durations)
        /\ average_download.reported <=> Len(download_durations) > 0
        /\ average_download.reported =>
             average_download.value
                 = Sum(download_durations) \div Len(download_durations)

\* C8 (Spec): whatever delete_file returns, the step in which it returns
\* prints nothing, changes no duration list, counter or exit status and leads
\* to the upload, and the next step issues the upload.
C8_DeleteIsFireAndForget ==
    [][/\ pc = "delete" =>
            /\ pc' = "upload!"
            /\ upload_durations' = upload_durations
            /\ download_durations' = download_durations
            /\ succeeded' = succeeded
            /\ stdout' = stdout /\ stderr' = stderr
            /\ exit_code' = exit_code /\ iter' = iter
       /\ pc = "upload!" =>
            /\ pc' = "upload"
            /\ \E req \in inflight' : req.kind = "upload" /\ req.iter = iter
            /\ issued'["upload"] = issued["delete"]
            /\ stderr' = stderr]_vars

\* The upload is in flight after a delete that failed at the transport level,
\* in an iteration after one whose delete was answered with an error status.
C8_Witness ==
    /\ pc = "upload" /\ iter >= 1
    /\ \E req \in inflight : req.kind = "upload"
    /\ done_call.kind = "delete" /\ ~done_call.ret.ok
    /\ done_call.outcome.t = "send_err"

\* C9 (Spec): at most one exchange is in flight; it belongs to the current
\* iteration; an upload is issued only after the delete of its iteration has
\* returned, a download only after the upload of its iteration (if one is
\* requested) has returned, and the first call of an iteration only after the
\* last call of the iteration before; a delete is made only with an upload.
C9_CallOrder ==
    /\ Cardinality(inflight) <= 1
    /\ ~args.upload => (issued["delete"] = 0 /\ issued["upload"] = 0)
    /\ ~args.download => issued["download"] = 0
    /\ issued["upload"] <= issued["delete"]
    /\ issued["delete"] <= issued["upload"] + 1
    /\ \A req \in inflight :
         LET first == (iter = 0 /\ done_call = NoExchange)
             previous(kind) ==
                 /\ iter > 0
                 /\ done_call.iter = iter - 1
                 /\ done_call.kind = kind
         IN /\ req.iter = iter
            /\ pc = req.kind
            /\ req.kind = "delete" =>
                 (first \/ previous(IF args.download THEN "download"
                                    ELSE "upload"))
            /\ req.kind = "upload" =>
                 (done_call.kind = "delete" /\ done_call.iter = iter)
            /\ req.kind = "download" =>
                 IF args.upload
                 THEN done_call.kind = "upload" /\ done_call.iter = iter
                 ELSE first \/ previous("download")

\* The delete of a later iteration is in flight after the download of the
\* iteration before it returned.
C9_Witness ==
    /\ iter >= 1 /\ args.download
    /\ \E req \in inflight : req.kind = "delete"
    /\ done_call.kind = "download"

\* C10 (Spec): upload_file returns Ok, and its duration is appended to
\* upload_durations, exactly when send() returned a response, whatever its
\* status; a failure to build the client or the form or to send is an Err and
\* appends nothing.
C10_UploadOkIffResponse ==
    done_call.kind = "upload" =>
        /\ done_call.ret.ok <=> done_call.outcome.t = "response"
        /\ Len(upload_durations)
               = done_call.ulen + IF done_call.outcome.t = "response" THEN 1 ELSE 0
        /\ succeeded["upload"] = Len(upload_durations)

\* An upload answered with status 500 has been recorded with its duration.
C10_Witness ==
    /\ done_call.kind = "upload"
    /\ done_call.outcome.t = "response" /\ done_call.outcome.status = 500
    /\ Len(upload_durations) = done_call.ulen + 1

====
